---- MODULE Spec2Model ----
(***************************************************************************)
(* Client provisioning / token lifecycle of morrigan.providers.clients.    *)
(*                                                                         *)
(* Server side (src/unnamed/part_001, same code in src/server/server.js):  *)
(* the client registry over two store collections, the token generator it  *)
(* consumes, and the 'token.refresh' handler.  Every async function is cut *)
(* at its awaits: one action per store operation, so calls interleave the  *)
(* way promises resolved by the store can.                                 *)
(*                                                                         *)
(* Agent side (src/unnamed/part_000): token persistence and refresh loop.  *)
(***************************************************************************)
EXTENDS Naturals, Sequences, FiniteSets

\* ------------------------------------------------------------------ bounds
MaxCalls == 3

MaxInFlight == 2

\* Connections the agent opens in a run, and messages it sends in a run.
MaxConnects == 2

MaxSent == 3

\* Requests the endpoint handlers receive in a run.
MaxRequests == 2

\* Identities the calls of a run are made for.
ClientIds == {"a"}

\* tokenLifetime: { days: 30 }
TokenLifetime == 30

\* setInterval(..., (8 * 3600 * 1000))
RefreshInterval == 28800000

\* ------------------------------------------------------------------- state
VARIABLES
    clientRecords,   \* collection 'morrigan.clients': documents in insertion order
    tokenRecords,    \* collection 'morrigan.clients.tokens': set of token records
    pendingWrites,   \* store writes that were issued and not awaited
    calls,           \* every call made so far, with its position and locals
    nextDocId,       \* next _id the store assigns
    nextTokenId,     \* next token record id the generator assigns
    \* the agent process (part_000)
    fs,              \* files by path: contents, or null when the file is absent
    core,            \* core.args and core.settings.token handed to setup
    token,           \* module variable token
    tokenExpires,    \* module variable tokenExpires
    agentPc,         \* "off", "new", "ready", "failed" when setup threw, or
                     \* "stopped" when the process was stopped
    connection,      \* the open connection (they are numbered from 1), or 0
    connCount,       \* connections opened so far
    timers,          \* the interval timers that are armed
    tokenRefreshInterval,  \* module variable tokenRefreshInterval
    sent,            \* every connection.send so far, in order
    event            \* history: the hook or handler that ran last, its input

serverVars == <<clientRecords, tokenRecords, pendingWrites, calls, nextDocId,
                nextTokenId>>

agentVars == <<fs, core, token, tokenExpires, agentPc, connection, connCount,
               timers, tokenRefreshInterval, sent, event>>

vars == <<serverVars, agentVars>>

\* ----------------------------------------------------------------- helpers
\* JavaScript null / undefined: an optional value is a sequence of length <= 1.
Null == <<>>

Some(x) == <<x>>

\* JavaScript truthiness of an optional string.
Truthy(x) == x # Null /\ x[1] # ""

\* DateTime.now(): a monotone clock, one tick per call received.
Now == Len(calls)

\* The signed token string: it names its token record (kid) and its subject.
Token(id, subject) == [kid |-> id, sub |-> subject]

NoToken == Token(0, "")

\* DateTime.toISO()
ToISO(d) == <<"ISO", d>>

\* collection.findOne(filter): the first matching document, or null.
FirstIndex(docs, clientId) ==
    LET hits == {i \in 1..Len(docs) : docs[i].id = clientId}
    IN  IF hits = {} THEN 0 ELSE CHOOSE i \in hits : \A j \in hits : i <= j

getClientIn(docs, clientId) ==
    IF FirstIndex(docs, clientId) = 0 THEN Null
    ELSE Some(docs[FirstIndex(docs, clientId)])

getClient(clientId) == getClientIn(clientRecords, clientId)

\* collection.deleteOne({id}): removes the first matching document.
DeleteOne(docs, clientId) ==
    LET k == FirstIndex(docs, clientId)
    IN  IF k = 0 THEN docs
        ELSE [i \in 1..(Len(docs) - 1) |-> IF i < k THEN docs[i] ELSE docs[i + 1]]

\* collection.replaceOne({id}, doc): replaces the first matching document; no
\* upsert, and the store refuses a replacement that would change _id.
ReplaceOne(docs, clientId, doc) ==
    LET k == FirstIndex(docs, clientId)
    IN  IF k = 0 \/ docs[k]._id # doc._id THEN docs
        ELSE [docs EXCEPT ![k] = doc]

\* ------------------------------------------------------- token generator
\* tokens.newToken(subject): the record of the token minted next.
NewTokenRecord(subject) ==
    [id |-> nextTokenId, subject |-> subject, expires |-> Now + TokenLifetime]

\* A generator that only adds the record (keeps the subject's earlier tokens).
NewTokenStore_keepOld(subject) == tokenRecords \cup {NewTokenRecord(subject)}

\* tokens.newToken(subject): the token collection after the mint.  The new
\* record supersedes every earlier record of the subject.
NewTokenStore(subject) ==
    {r \in tokenRecords : r.subject # subject} \cup {NewTokenRecord(subject)}

\* tokens.newToken(subject): what the caller gets, { token, record }.
NewTokenResult(subject) ==
    [token |-> Token(nextTokenId, subject), record |-> NewTokenRecord(subject)]

\* tokens.verifyToken(token) against a token collection.
TokensVerifyIn(store, jwt) ==
    IF \E r \in store : r.id = jwt.kid /\ r.subject = jwt.sub
    THEN [success |-> TRUE, subject |-> jwt.sub, status |-> "ok", reason |-> ""]
    ELSE [success |-> FALSE, subject |-> "", status |-> "rejected",
          reason |-> "no record"]

TokensVerify(jwt) == TokensVerifyIn(tokenRecords, jwt)

\* ------------------------------------------------------------ stored state
\* setup(): the collections are those of the database, which outlives the
\* process.  A run starts with client "b" provisioned earlier (a bystander
\* no call of the run is made for) and with client "a" either unknown or
\* provisioned earlier, its write landed and its token held by its agent.
StoredClient(n, clientId) ==
    [_id |-> n, id |-> clientId, created |-> 0, updated |-> 0, tokenId |-> n,
     state |-> ""]

StoredToken(n, clientId) ==
    [id |-> n, subject |-> clientId, expires |-> TokenLifetime]

\* ------------------------------------------------------------------ calls
NewCall(op, clientId, jwt) ==
    [op |-> op, clientId |-> clientId, token |-> jwt, pc |-> "start",
     client |-> Null, record |-> Null, t |-> Null, r |-> Null,
     result |-> Null, out |-> <<>>,
     \* the request, when an endpoint handler makes the call
     req |-> Null,
     \* the message, when the 'state' handler runs
     message |-> Null,
     \* the store operations of this call that the store rejected
     failed |-> {},
     \* history: no earlier call for this client was still open at the start
     solo |-> \A i \in 1..Len(calls) :
                 calls[i].clientId = clientId => calls[i].pc = "done"]

\* A new call is received: the model bounds the calls made and the calls open
\* at the same time.
CanCall ==
    /\ Len(calls) < MaxCalls
    /\ Cardinality({i \in 1..Len(calls) : calls[i].pc # "done"}) < MaxInFlight

Running(i, op, pc) ==
    /\ i \in 1..Len(calls)
    /\ calls[i].op = op
    /\ calls[i].pc = pc

\* The tokens a caller can present: the one the agent of "a" holds from an
\* earlier run (unknown to the generator when "a" was never provisioned), and
\* every token handed out so far, returned by provisionClient or sent in a
\* 'client.token.issue' message.
IssuedTokens ==
    {Token(2, "a")}
    \cup {calls[i].result[1] : i \in {j \in 1..Len(calls) :
        calls[j].op = "provision" /\ calls[j].pc = "done"}}
    \cup {calls[i].out[1].token : i \in {j \in 1..Len(calls) :
        calls[j].op = "refresh" /\ calls[j].pc = "done"}}

ServerInit ==
    /\ \/ /\ clientRecords = <<StoredClient(1, "b")>>
          /\ tokenRecords = {StoredToken(1, "b")}
       \/ /\ clientRecords = <<StoredClient(1, "b"), StoredClient(2, "a")>>
          /\ tokenRecords = {StoredToken(1, "b"), StoredToken(2, "a")}
    /\ pendingWrites = {}
    /\ calls = <<>>
    /\ nextDocId = 3
    /\ nextTokenId = 3

\* ------------------------------------------------------- provisionClient
\* let client = await getClient(clientId)
ProvisionLookup(clientId) ==
    /\ CanCall
    /\ calls' = Append(calls, [NewCall("provision", clientId, NoToken) EXCEPT
                    !.pc = "lookedup", !.client = getClient(clientId)])
    /\ UNCHANGED <<clientRecords, tokenRecords, pendingWrites,
                   nextDocId, nextTokenId>>

\* let client = await getClient(clientId), the store rejecting findOne: the
\* await throws and provisionClient rejects with the store's error.
ProvisionLookupFails(clientId) ==
    /\ CanCall
    /\ calls' = Append(calls, [NewCall("provision", clientId, NoToken) EXCEPT
                    !.pc = "done", !.failed = {"lookup"}])
    /\ UNCHANGED <<clientRecords, tokenRecords, pendingWrites,
                   nextDocId, nextTokenId>>

\* await clientRecords.insertOne(record), the store rejecting the insert:
\* nothing is stored and provisionClient rejects before it mints.
ProvisionInsertFails(i) ==
    /\ Running(i, "provision", "lookedup")
    /\ calls[i].client = Null
    /\ calls' = [calls EXCEPT ![i].pc = "done",
                              ![i].failed = calls[i].failed \cup {"insert"}]
    /\ UNCHANGED <<clientRecords, tokenRecords, pendingWrites,
                   nextDocId, nextTokenId>>

\* provisionClient building the record of a new client without inserting it.
ProvisionRecord_noInsert(i) ==
    /\ Running(i, "provision", "lookedup")
    /\ calls' = [calls EXCEPT ![i].pc = "record",
            ![i].record = IF calls[i].client # Null THEN calls[i].client
                          ELSE Some([_id |-> nextDocId, id |-> calls[i].clientId,
                                     created |-> Now, updated |-> 0,
                                     tokenId |-> 0, state |-> ""])]
    /\ UNCHANGED <<clientRecords, nextDocId, tokenRecords, pendingWrites,
                   nextTokenId>>

\* if (client) { record = client } else { record = {...}; await insertOne(record) }
ProvisionRecord(i) ==
    /\ Running(i, "provision", "lookedup")
    /\ IF calls[i].client # Null
       THEN /\ calls' = [calls EXCEPT ![i].pc = "record",
                                      ![i].record = calls[i].client]
            /\ UNCHANGED <<clientRecords, nextDocId>>
       ELSE LET record == [_id |-> nextDocId, id |-> calls[i].clientId,
                           created |-> Now, updated |-> 0, tokenId |-> 0,
                           state |-> ""]
            IN  /\ clientRecords' = Append(clientRecords, record)
                /\ nextDocId' = nextDocId + 1
                /\ calls' = [calls EXCEPT ![i].pc = "record",
                                          ![i].record = Some(record)]
    /\ UNCHANGED <<tokenRecords, pendingWrites, nextTokenId>>

\* provisionClient handing an existing client the token it already has
\* instead of minting a new one.
ProvisionMint_reuse(i) ==
    /\ Running(i, "provision", "record")
    /\ LET record == calls[i].record[1]
           held == {r \in tokenRecords : r.id = record.tokenId}
       IN  IF held # {}
           THEN /\ calls' = [calls EXCEPT ![i].pc = "minted",
                        ![i].t = Some([token |-> Token(record.tokenId, record.id),
                                       record |-> CHOOSE r \in held : TRUE])]
                /\ UNCHANGED <<tokenRecords, nextTokenId>>
           ELSE /\ tokenRecords' = NewTokenStore(calls[i].clientId)
                /\ nextTokenId' = nextTokenId + 1
                /\ calls' = [calls EXCEPT ![i].pc = "minted",
                        ![i].t = Some(NewTokenResult(calls[i].clientId))]
    /\ UNCHANGED <<clientRecords, pendingWrites, nextDocId>>

\* let t = await tokens.newToken(clientId)
ProvisionMint(i) ==
    /\ Running(i, "provision", "record")
    /\ tokenRecords' = NewTokenStore(calls[i].clientId)
    /\ nextTokenId' = nextTokenId + 1
    /\ calls' = [calls EXCEPT ![i].pc = "minted",
                              ![i].t = Some(NewTokenResult(calls[i].clientId))]
    /\ UNCHANGED <<clientRecords, pendingWrites, nextDocId>>

\* record.tokenId = t.record.id; record.updated = now;
\* clientRecords.replaceOne({id: record.id}, record)   (not awaited)
\* return t.token
ProvisionReturn(i) ==
    /\ Running(i, "provision", "minted")
    /\ LET t == calls[i].t[1]
           record == [calls[i].record[1] EXCEPT !.tokenId = t.record.id,
                                                !.updated = Now]
       IN  /\ pendingWrites' = pendingWrites \cup
                   {[by |-> i, id |-> record.id, doc |-> record]}
           /\ calls' = [calls EXCEPT ![i].pc = "done",
                                     ![i].record = Some(record),
                                     ![i].result = Some(t.token)]
    /\ UNCHANGED <<clientRecords, tokenRecords, nextDocId,
                   nextTokenId>>

\* The store carries out a replaceOne that provisionClient did not wait for.
ReplaceOneLand(w) ==
    /\ w \in pendingWrites
    /\ clientRecords' = ReplaceOne(clientRecords, w.id, w.doc)
    /\ pendingWrites' = pendingWrites \ {w}
    /\ UNCHANGED <<tokenRecords, calls, nextDocId, nextTokenId>>

\* The store rejects a replaceOne that provisionClient did not wait for: the
\* record keeps its old tokenId and updated, and the call that issued the
\* write has already returned (or will return) its token.
ReplaceOneFails(w) ==
    /\ w \in pendingWrites
    /\ pendingWrites' = pendingWrites \ {w}
    /\ calls' = [calls EXCEPT ![w.by].failed = calls[w.by].failed \cup {"write"}]
    /\ UNCHANGED <<clientRecords, tokenRecords, nextDocId, nextTokenId>>

\* ----------------------------------------------------- deprovisionClient
\* let client = await getClient(clientId)
DeprovisionLookup(clientId) ==
    /\ CanCall
    /\ calls' = Append(calls, [NewCall("deprovision", clientId, NoToken) EXCEPT
                    !.pc = "lookedup", !.client = getClient(clientId)])
    /\ UNCHANGED <<clientRecords, tokenRecords, pendingWrites,
                   nextDocId, nextTokenId>>

\* deprovisionClient without the early return: it deletes by the id asked for.
DeprovisionDelete_noCheck(i) ==
    /\ Running(i, "deprovision", "lookedup")
    /\ clientRecords' = DeleteOne(clientRecords, calls[i].clientId)
    /\ calls' = IF calls[i].client # Null /\ calls[i].client[1].tokenId # 0
                THEN [calls EXCEPT ![i].pc = "deleted"]
                ELSE [calls EXCEPT ![i].pc = "done", ![i].result = Some(TRUE)]
    /\ UNCHANGED <<tokenRecords, pendingWrites, nextDocId, nextTokenId>>

\* if (!client) { return false }; await clientRecords.deleteOne({id: client.id})
DeprovisionDelete(i) ==
    /\ Running(i, "deprovision", "lookedup")
    /\ IF calls[i].client = Null
       THEN /\ calls' = [calls EXCEPT ![i].pc = "done",
                                      ![i].result = Some(FALSE)]
            /\ UNCHANGED clientRecords
       ELSE /\ clientRecords' = DeleteOne(clientRecords, calls[i].client[1].id)
            /\ calls' = IF calls[i].client[1].tokenId # 0
                        THEN [calls EXCEPT ![i].pc = "deleted"]
                        ELSE [calls EXCEPT ![i].pc = "done",
                                           ![i].result = Some(TRUE)]
    /\ UNCHANGED <<tokenRecords, pendingWrites, nextDocId,
                   nextTokenId>>

\* await clientRecords.deleteOne({id: client.id}), the store rejecting the
\* delete: nothing is removed and deprovisionClient rejects.
DeprovisionDeleteFails(i) ==
    /\ Running(i, "deprovision", "lookedup")
    /\ calls[i].client # Null
    /\ calls' = [calls EXCEPT ![i].pc = "done",
                              ![i].failed = calls[i].failed \cup {"delete"}]
    /\ UNCHANGED <<clientRecords, tokenRecords, pendingWrites,
                   nextDocId, nextTokenId>>

\* await tokenRecords.deleteOne({id: client.tokenId}), the store rejecting the
\* delete: deprovisionClient rejects; the client record is already deleted and
\* no handler puts it back.
DeprovisionDeleteTokenFails(i) ==
    /\ Running(i, "deprovision", "deleted")
    /\ calls' = [calls EXCEPT ![i].pc = "done",
                              ![i].failed = calls[i].failed \cup {"deleteToken"}]
    /\ UNCHANGED <<clientRecords, tokenRecords, pendingWrites,
                   nextDocId, nextTokenId>>

\* if (client.tokenId) { await tokenRecords.deleteOne({id: client.tokenId}) }
\* return true
DeprovisionDeleteToken(i) ==
    /\ Running(i, "deprovision", "deleted")
    /\ tokenRecords' = {r \in tokenRecords : r.id # calls[i].client[1].tokenId}
    /\ calls' = [calls EXCEPT ![i].pc = "done", ![i].result = Some(TRUE)]
    /\ UNCHANGED <<clientRecords, pendingWrites, nextDocId,
                   nextTokenId>>

\* ------------------------------------------------------------ verifyToken
\* verifyToken testing the result object (if (r)) instead of r.success.
VerifyResult_truthy(r, client) ==
    [state |-> "success", client |-> client, status |-> "", reason |-> ""]

VerifyResult(r, client) ==
    IF r.success
    THEN [state |-> "success", client |-> client, status |-> "", reason |-> ""]
    ELSE [state |-> "authenticationfailed", client |-> Null,
          status |-> r.status, reason |-> r.reason]

\* let r = await tokens.verifyToken(token); on failure the call returns now.
VerifyTokens(jwt) ==
    /\ CanCall
    /\ jwt \in IssuedTokens
    /\ LET r == TokensVerify(jwt)
       IN  calls' = Append(calls, [NewCall("verify", "", jwt) EXCEPT
                !.r = Some(r),
                !.pc = IF r.success THEN "verified" ELSE "done",
                !.result = IF r.success THEN Null
                           ELSE Some(VerifyResult(r, Null))])
    /\ UNCHANGED <<clientRecords, tokenRecords, pendingWrites,
                   nextDocId, nextTokenId>>

\* let client = await getClient(r.subject); return { state: 'success', client }
VerifyGetClient(i) ==
    /\ Running(i, "verify", "verified")
    /\ LET client == getClient(calls[i].r[1].subject)
       IN  calls' = [calls EXCEPT ![i].pc = "done", ![i].client = client,
                        ![i].result = Some(VerifyResult(calls[i].r[1], client))]
    /\ UNCHANGED <<clientRecords, tokenRecords, pendingWrites,
                   nextDocId, nextTokenId>>

\* The connection layer binds a connection to the client a verification
\* resolved; handlers then run with record.clientId = that client's id.
Connections ==
    {calls[i].result[1].client[1].id : i \in {j \in 1..Len(calls) :
        /\ calls[j].op = "verify"
        /\ calls[j].pc = "done"
        /\ calls[j].result[1].state = "success"
        /\ calls[j].result[1].client # Null}}

\* ------------------------------------------------ messages['token.refresh']
\* The handler minting for the connection record's own id, not its clientId.
RefreshMint_wrongSubject(clientId) ==
    /\ CanCall
    /\ tokenRecords' = NewTokenStore("connection")
    /\ nextTokenId' = nextTokenId + 1
    /\ calls' = Append(calls, [NewCall("refresh", clientId, NoToken) EXCEPT
                    !.pc = "minted", !.t = Some(NewTokenResult("connection"))])
    /\ UNCHANGED <<clientRecords, pendingWrites, nextDocId>>

\* let r = await tokens.newToken(record.clientId)
RefreshMint(clientId) ==
    /\ CanCall
    /\ tokenRecords' = NewTokenStore(clientId)
    /\ nextTokenId' = nextTokenId + 1
    /\ calls' = Append(calls, [NewCall("refresh", clientId, NoToken) EXCEPT
                    !.pc = "minted", !.t = Some(NewTokenResult(clientId))])
    /\ UNCHANGED <<clientRecords, pendingWrites, nextDocId>>

\* The handler sending the issuance message twice.
RefreshSend_twice(i) ==
    /\ Running(i, "refresh", "minted")
    /\ LET r == calls[i].t[1]
           issue == [type |-> "client.token.issue", token |-> r.token,
                     expires |-> ToISO(r.record.expires)]
       IN  calls' = [calls EXCEPT ![i].pc = "done",
                ![i].out = calls[i].out \o <<issue, issue>>]
    /\ UNCHANGED <<clientRecords, tokenRecords, pendingWrites,
                   nextDocId, nextTokenId>>

\* connection.send({type: 'client.token.issue', token, expires})
RefreshSend(i) ==
    /\ Running(i, "refresh", "minted")
    /\ LET r == calls[i].t[1]
       IN  calls' = [calls EXCEPT ![i].pc = "done",
                ![i].out = Append(calls[i].out,
                    [type |-> "client.token.issue", token |-> r.token,
                     expires |-> ToISO(r.record.expires)])]
    /\ UNCHANGED <<clientRecords, tokenRecords, pendingWrites,
                   nextDocId, nextTokenId>>

\* ------------------------------------------------------- messages['state']
\* A message of the agent: its type and, for 'state', the reported status.
Message(type, state) == [type |-> type, state |-> state]

\* The status strings an agent reports.
States == {"idle", "busy"}

\* let client = await providers.client.getClient(record.clientId)
\* client.state = message.state
\* The assignment changes the object findOne returned, which is the handler's
\* own copy (kept in the call's client field); no store operation follows.
\* For a client that is gone the assignment throws and the handler rejects.
StateReport(clientId, s) ==
    /\ CanCall
    /\ LET client == getClient(clientId)
       IN  calls' = Append(calls, [NewCall("state", clientId, NoToken) EXCEPT
                !.pc = "done",
                !.message = Some(Message("state", s)),
                !.client = IF client = Null THEN Null
                           ELSE Some([client[1] EXCEPT !.state = s])])
    /\ UNCHANGED <<clientRecords, tokenRecords, pendingWrites,
                   nextDocId, nextTokenId>>

\* ------------------------------------------------------------------- spec
\* The registry runs on the server; no agent process is part of its runs.
NoMessage == [type |-> "", token |-> "", expires |-> ""]

Event(type, conn, message) ==
    [type |-> type, connection |-> conn, message |-> message]

\* Module variables of the refresh loop before any connection was opened.
LoopInit ==
    /\ connection = 0
    /\ connCount = 0
    /\ timers = {}
    /\ tokenRefreshInterval = Null
    /\ sent = <<>>
    /\ event = Event("", 0, NoMessage)

loopVars == <<connection, connCount, timers, tokenRefreshInterval, sent>>

AgentOff ==
    /\ fs = [p \in {"token", "token.expiration", "args.tokenFile"} |-> Null]
    /\ core = [args |-> Null, settingsToken |-> Null]
    /\ token = Null
    /\ tokenExpires = Null
    /\ agentPc = "off"
    /\ LoopInit

Init == ServerInit /\ AgentOff

Next ==
    \/ \E c \in ClientIds : ProvisionLookup(c) /\ UNCHANGED agentVars
    \/ \E i \in 1..Len(calls) : ProvisionRecord(i) /\ UNCHANGED agentVars
    \/ \E i \in 1..Len(calls) : ProvisionMint(i) /\ UNCHANGED agentVars
    \/ \E i \in 1..Len(calls) : ProvisionReturn(i) /\ UNCHANGED agentVars
    \/ \E w \in pendingWrites : ReplaceOneLand(w) /\ UNCHANGED agentVars
    \/ \E c \in ClientIds : DeprovisionLookup(c) /\ UNCHANGED agentVars
    \/ \E i \in 1..Len(calls) : DeprovisionDelete(i) /\ UNCHANGED agentVars
    \/ \E i \in 1..Len(calls) : DeprovisionDeleteToken(i) /\ UNCHANGED agentVars
    \/ \E t \in IssuedTokens : VerifyTokens(t) /\ UNCHANGED agentVars
    \/ \E i \in 1..Len(calls) : VerifyGetClient(i) /\ UNCHANGED agentVars
    \/ \E c \in Connections : RefreshMint(c) /\ UNCHANGED agentVars
    \/ \E i \in 1..Len(calls) : RefreshSend(i) /\ UNCHANGED agentVars

Spec == Init /\ [][Next]_vars

\* The message handlers of a connected client: connections are opened by
\* verifications, and the client may be deprovisioned while connected.
MessageNext ==
    \/ \E t \in IssuedTokens : VerifyTokens(t) /\ UNCHANGED agentVars
    \/ \E i \in 1..Len(calls) : VerifyGetClient(i) /\ UNCHANGED agentVars
    \/ \E c \in Connections : RefreshMint(c) /\ UNCHANGED agentVars
    \/ \E i \in 1..Len(calls) : RefreshSend(i) /\ UNCHANGED agentVars
    \/ \E c \in Connections, s \in States :
            StateReport(c, s) /\ UNCHANGED agentVars
    \/ \E c \in ClientIds : DeprovisionLookup(c) /\ UNCHANGED agentVars
    \/ \E i \in 1..Len(calls) : DeprovisionDelete(i) /\ UNCHANGED agentVars
    \/ \E i \in 1..Len(calls) : DeprovisionDeleteToken(i) /\ UNCHANGED agentVars

MessageSpec == Init /\ [][MessageNext]_vars

\* provisionClient and deprovisionClient over a store whose operations can be
\* rejected.
FailNext ==
    \/ \E c \in ClientIds : ProvisionLookup(c) /\ UNCHANGED agentVars
    \/ \E c \in ClientIds : ProvisionLookupFails(c) /\ UNCHANGED agentVars
    \/ \E i \in 1..Len(calls) : ProvisionRecord(i) /\ UNCHANGED agentVars
    \/ \E i \in 1..Len(calls) : ProvisionInsertFails(i) /\ UNCHANGED agentVars
    \/ \E i \in 1..Len(calls) : ProvisionMint(i) /\ UNCHANGED agentVars
    \/ \E i \in 1..Len(calls) : ProvisionReturn(i) /\ UNCHANGED agentVars
    \/ \E w \in pendingWrites : ReplaceOneLand(w) /\ UNCHANGED agentVars
    \/ \E w \in pendingWrites : ReplaceOneFails(w) /\ UNCHANGED agentVars
    \/ \E c \in ClientIds : DeprovisionLookup(c) /\ UNCHANGED agentVars
    \/ \E i \in 1..Len(calls) : DeprovisionDelete(i) /\ UNCHANGED agentVars
    \/ \E i \in 1..Len(calls) : DeprovisionDeleteFails(i) /\ UNCHANGED agentVars
    \/ \E i \in 1..Len(calls) : DeprovisionDeleteToken(i) /\ UNCHANGED agentVars
    \/ \E i \in 1..Len(calls) :
            DeprovisionDeleteTokenFails(i) /\ UNCHANGED agentVars

FailSpec == Init /\ [][FailNext]_vars

\* -------------------------------------------------------------- endpoints
\* What a handler does with res: res.status(n) followed by res.send(body) or
\* res.end().  kind is "none" for res.end(), "token", "record", "list", "text".
Response(status, kind, records, tok, text) ==
    [status |-> status, kind |-> kind, records |-> records, token |-> tok,
     text |-> text]

\* An identity that is undefined in the request: the store writes the field
\* as null and a filter on it matches the records written that way.
UndefinedId == "<undefined>"

IdOf(x) == IF x = Null THEN UndefinedId ELSE x[1]

Request(ep, input) ==
    [ep |-> ep, input |-> input, called |-> FALSE]

CanRequest ==
    /\ Len(calls) < MaxRequests
    /\ Cardinality({i \in 1..Len(calls) : calls[i].pc # "done"}) < MaxInFlight

\* ep_provisionClient(req, res) up to the first await inside
\* provisionClient(details.id); body is req.body.
EpProvisionClient(body) ==
    /\ CanRequest
    /\ calls' = Append(calls,
            [NewCall("provision", IdOf(body.id), NoToken) EXCEPT
                !.pc = "lookedup",
                !.client = getClient(IdOf(body.id)),
                !.req = Some([Request("provision", Some(body)) EXCEPT
                                !.called = TRUE])])
    /\ UNCHANGED <<clientRecords, tokenRecords, pendingWrites,
                   nextDocId, nextTokenId>>

\* ep_getClients answering a client that does not exist with 404.
EpGetClients_404(params) ==
    /\ CanRequest
    /\ LET one == params # Null /\ Truthy(params[1].clientId)
           c == IF one THEN getClient(params[1].clientId[1]) ELSE Null
           answer == IF one /\ c # Null
                       THEN Response(200, "record", c, NoToken, "")
                     ELSE IF one
                       THEN Response(404, "none", <<>>, NoToken, "")
                     ELSE Response(200, "list", clientRecords, NoToken, "")
       IN  calls' = Append(calls,
                [NewCall("get", IF one THEN params[1].clientId[1] ELSE "",
                         NoToken) EXCEPT
                    !.pc = "done", !.client = c, !.out = <<answer>>,
                    !.req = Some(Request("get", params))])
    /\ UNCHANGED <<clientRecords, tokenRecords, pendingWrites,
                   nextDocId, nextTokenId>>

\* ep_getClients(req, res); params is req.params.
EpGetClients(params) ==
    /\ CanRequest
    /\ LET one == params # Null /\ Truthy(params[1].clientId)
           c == IF one THEN getClient(params[1].clientId[1]) ELSE Null
           answer == IF one /\ c # Null
                       THEN Response(200, "record", c, NoToken, "")
                     ELSE IF one
                       THEN Response(204, "none", <<>>, NoToken, "")
                     ELSE Response(200, "list", clientRecords, NoToken, "")
       IN  calls' = Append(calls,
                [NewCall("get", IF one THEN params[1].clientId[1] ELSE "",
                         NoToken) EXCEPT
                    !.pc = "done", !.client = c, !.out = <<answer>>,
                    !.req = Some(Request("get", params))])
    /\ UNCHANGED <<clientRecords, tokenRecords, pendingWrites,
                   nextDocId, nextTokenId>>

\* ep_deprovisionClient(req, res) up to the first await inside
\* deprovisionClient(req.params.clientId).  There is no return after the 400:
\* with req.params undefined the next line throws, otherwise
\* deprovisionClient is called with the undefined or empty id.
EpDeprovisionClient(params) ==
    /\ CanRequest
    /\ LET missing == params = Null \/ ~Truthy(params[1].clientId)
           refused == IF missing
                      THEN <<Response(400, "text", <<>>, NoToken,
                                      "No client ID provided.")>>
                      ELSE <<>>
       IN  calls' = Append(calls,
             IF params = Null
             THEN [NewCall("deprovision", UndefinedId, NoToken) EXCEPT
                     !.pc = "done", !.out = refused,
                     !.req = Some(Request("deprovision", params))]
             ELSE [NewCall("deprovision", IdOf(params[1].clientId), NoToken)
                   EXCEPT
                     !.pc = "lookedup",
                     !.client = getClient(IdOf(params[1].clientId)),
                     !.out = refused,
                     !.req = Some([Request("deprovision", params) EXCEPT
                                     !.called = TRUE])])
    /\ UNCHANGED <<clientRecords, tokenRecords, pendingWrites,
                   nextDocId, nextTokenId>>

\* What the handler of call i has done with res so far.  The continuation of
\* 'await provisionClient(...)' (res.status(200); res.send(JSON.stringify(t)))
\* and the .then() of deprovisionClient(...) (res.status(o ? 200 : 204);
\* res.end()) run as soon as the call has returned, before any other store
\* operation completes.
Responses(i) ==
    IF calls[i].req = Null \/ calls[i].pc # "done" \/ ~calls[i].req[1].called
    THEN calls[i].out
    ELSE IF calls[i].req[1].ep = "provision"
    THEN Append(calls[i].out,
                Response(200, "token", <<>>, calls[i].result[1], ""))
    ELSE Append(calls[i].out,
                Response(IF calls[i].result[1] THEN 200 ELSE 204, "none",
                         <<>>, NoToken, ""))

\* The requests of a run: bodies of POST /provision, params of the GET and
\* DELETE routes.
Bodies == {[id |-> x] : x \in {Null, Some(""), Some("a")}}

GetParams ==
    {Null} \cup {Some([clientId |-> x]) : x \in {Null, Some("a"), Some("b")}}

DeleteParams ==
    {Null} \cup {Some([clientId |-> x]) : x \in {Null, Some("a")}}

EndpointNext ==
    \/ \E b \in Bodies : EpProvisionClient(b) /\ UNCHANGED agentVars
    \/ \E i \in 1..Len(calls) : ProvisionRecord(i) /\ UNCHANGED agentVars
    \/ \E i \in 1..Len(calls) : ProvisionMint(i) /\ UNCHANGED agentVars
    \/ \E i \in 1..Len(calls) : ProvisionReturn(i) /\ UNCHANGED agentVars
    \/ \E w \in pendingWrites : ReplaceOneLand(w) /\ UNCHANGED agentVars
    \/ \E p \in GetParams : EpGetClients(p) /\ UNCHANGED agentVars
    \/ \E p \in DeleteParams : EpDeprovisionClient(p) /\ UNCHANGED agentVars
    \/ \E i \in 1..Len(calls) : DeprovisionDelete(i) /\ UNCHANGED agentVars
    \/ \E i \in 1..Len(calls) : DeprovisionDeleteToken(i) /\ UNCHANGED agentVars

EndpointSpec == Init /\ [][EndpointNext]_vars

\* ------------------------------------------------------------ the agent
\* A value in memory: a string (read with an encoding, taken from the
\* arguments, the settings or a message) or a Buffer (read without one).
Str(d) == [kind |-> "string", data |-> d]

Buf(d) == [kind |-> "buffer", data |-> d]

\* JavaScript truthiness of a value in memory.
TruthyVal(v) == v # Null /\ ~(v[1].kind = "string" /\ v[1].data = "")

existsSync(path) == fs[path] # Null

\* fs.writeFileSync(path, value): the file holds the value's bytes.
writeFileSync(files, path, v) == [files EXCEPT ![path] = Some(v.data)]

\* saveToken() writing the token file only.
saveToken_tokenOnly(files, tok, expires) ==
    writeFileSync(files, "token", tok[1])

\* saveToken(): the files after it ran with the given token and expiry.
saveToken(files, tok, expires) ==
    LET written == writeFileSync(files, "token", tok[1])
    IN  IF TruthyVal(expires)
        THEN writeFileSync(written, "token.expiration", expires[1])
        ELSE written

\* setup, line 40, without the test of the force flag.
UseSupplied_noForce ==
    \/ ~existsSync("token")
    \/ /\ core.args # Null
       /\ (Truthy(core.args[1].token) \/ Truthy(core.args[1].tokenFile))

\* setup, line 40: acquire a token instead of loading the installed one.
UseSupplied ==
    \/ ~existsSync("token")
    \/ /\ core.args # Null
       /\ core.args[1].force
       /\ (Truthy(core.args[1].token) \/ Truthy(core.args[1].tokenFile))

\* setup, lines 41-49: the token acquired, or null when setup throws (no
\* source has a token, or core.args is undefined and core.args.token throws).
AcquiredToken ==
    IF core.args = Null THEN Null
    ELSE IF Truthy(core.args[1].token) THEN Some(Str(core.args[1].token[1]))
    ELSE IF Truthy(core.args[1].tokenFile) /\ existsSync("args.tokenFile")
         THEN Some(Str(fs["args.tokenFile"][1]))
    ELSE IF Truthy(core.settingsToken) THEN Some(Str(core.settingsToken[1]))
    ELSE Null

\* module.exports.setup, with saveToken() or loadToken() as it calls them.
Setup ==
    /\ agentPc = "new"
    /\ IF UseSupplied
       THEN IF AcquiredToken = Null
            THEN /\ agentPc' = "failed"
                 /\ UNCHANGED <<fs, token, tokenExpires>>
            ELSE /\ token' = AcquiredToken
                 /\ fs' = saveToken(fs, AcquiredToken, tokenExpires)
                 /\ agentPc' = "ready"
                 /\ UNCHANGED tokenExpires
       ELSE \* loadToken()
            /\ token' = Some(Buf(fs["token"][1]))
            /\ tokenExpires' = IF existsSync("token.expiration")
                               THEN Some(Buf(fs["token.expiration"][1]))
                               ELSE tokenExpires
            /\ agentPc' = "ready"
            /\ UNCHANGED fs
    /\ event' = Event("setup", 0, NoMessage)
    /\ UNCHANGED <<core, loopVars>>

\* The handler arming a refresh timer for the connection after saving.
TokenIssue_rearm(message) ==
    /\ agentPc = "ready"
    /\ token' = Some(Str(message.token))
    /\ tokenExpires' = Some(Str(message.expires))
    /\ fs' = saveToken(fs, Some(Str(message.token)), Some(Str(message.expires)))
    /\ LET handle == [connection |-> connection, every |-> RefreshInterval]
       IN  /\ timers' = timers \cup {handle}
           /\ tokenRefreshInterval' = Some(handle)
    /\ event' = Event("token.issue", connection, message)
    /\ UNCHANGED <<core, agentPc, connection, connCount, sent>>

\* messages['token.issue'](message)
TokenIssue(message) ==
    /\ agentPc = "ready"
    /\ token' = Some(Str(message.token))
    /\ tokenExpires' = Some(Str(message.expires))
    /\ fs' = saveToken(fs, Some(Str(message.token)), Some(Str(message.expires)))
    /\ event' = Event("token.issue", connection, message)
    /\ UNCHANGED <<core, agentPc, loopVars>>

\* messages['token.issue'](message) in a process that is stopped inside
\* saveToken(), after the write of the token and before that of the expiry.
TokenIssueStopped(message) ==
    /\ agentPc = "ready"
    /\ TruthyVal(Some(Str(message.expires)))
    /\ token' = Some(Str(message.token))
    /\ tokenExpires' = Some(Str(message.expires))
    /\ fs' = writeFileSync(fs, "token", Str(message.token))
    /\ agentPc' = "stopped"
    /\ event' = Event("stop", connection, message)
    /\ UNCHANGED <<core, loopVars>>

\* A new process is started on the same state directory: the module variables
\* are those of lines 3-7 again, and the timers of the old process are gone.
Restart ==
    /\ agentPc = "stopped"
    /\ agentPc' = "new"
    /\ token' = Null
    /\ tokenExpires' = Null
    /\ connection' = 0
    /\ timers' = {}
    /\ tokenRefreshInterval' = Null
    /\ event' = Event("restart", 0, NoMessage)
    /\ UNCHANGED <<fs, core, connCount, sent>>

\* connection.send(JSON.stringify({ type: 'client.token.refresh' }))
Refresh(conn, by) ==
    [connection |-> conn, type |-> "client.token.refresh", by |-> by]

\* setInterval(callback, ms): the timer armed; its callback sends on conn.
Interval(conn) == [connection |-> conn, every |-> RefreshInterval]

\* onConnect arming the timer without the immediate request.
OnConnect_noImmediate ==
    /\ agentPc = "ready"
    /\ connection = 0
    /\ connCount < MaxConnects
    /\ Len(sent) < MaxSent
    /\ connCount' = connCount + 1
    /\ connection' = connCount + 1
    /\ timers' = timers \cup {Interval(connCount + 1)}
    /\ tokenRefreshInterval' = Some(Interval(connCount + 1))
    /\ event' = Event("onConnect", connCount + 1, NoMessage)
    /\ UNCHANGED <<fs, core, token, tokenExpires, agentPc, sent>>

\* module.exports.onConnect(connection)
OnConnect ==
    /\ agentPc = "ready"
    /\ connection = 0
    /\ connCount < MaxConnects
    /\ Len(sent) < MaxSent
    /\ connCount' = connCount + 1
    /\ connection' = connCount + 1
    /\ sent' = Append(sent, Refresh(connCount + 1, "onConnect"))
    /\ timers' = timers \cup {Interval(connCount + 1)}
    /\ tokenRefreshInterval' = Some(Interval(connCount + 1))
    /\ event' = Event("onConnect", connCount + 1, NoMessage)
    /\ UNCHANGED <<fs, core, token, tokenExpires, agentPc>>

\* clearImmediate(handle) with the handle of an interval timer: the timers
\* API defines clearImmediate for what setImmediate() returned only, so the
\* interval is stopped or keeps running, as the runtime has it.
clearImmediate(armed, handle) == {armed, armed \ {handle}}

\* module.exports.onDisconnect()
OnDisconnect ==
    /\ agentPc = "ready"
    /\ connection # 0
    /\ connection' = 0
    /\ IF tokenRefreshInterval # Null
       THEN timers' \in clearImmediate(timers, tokenRefreshInterval[1])
       ELSE UNCHANGED timers
    /\ event' = Event("onDisconnect", connection, NoMessage)
    /\ UNCHANGED <<fs, core, token, tokenExpires, agentPc, connCount,
                   tokenRefreshInterval, sent>>

\* The callback of an armed interval timer runs (one 8-hour tick).
Tick(timer) ==
    /\ agentPc = "ready"
    /\ timer \in timers
    /\ Len(sent) < MaxSent
    /\ sent' = Append(sent, Refresh(timer.connection, "interval"))
    /\ event' = Event("tick", timer.connection, NoMessage)
    /\ UNCHANGED <<fs, core, token, tokenExpires, agentPc, connection,
                   connCount, timers, tokenRefreshInterval>>

\* What the state directory, the command line and the settings can hold when
\* an agent process starts.
OptionalOf(S) == {Null} \cup {Some(x) : x \in S}

ArgsSet ==
    {Null} \cup {Some([token |-> t, tokenFile |-> f, force |-> b]) :
                    t \in OptionalOf({"", "arg-token"}),
                    f \in OptionalOf({"/tmp/token"}),
                    b \in BOOLEAN}

\* The tokens the server grants in a run, each with its expiry; "installed"
\* is a grant of an earlier run.
Grants ==
    {[token |-> "installed", expires |-> "2025-12-01"],
     [token |-> "issued-1", expires |-> "2026-01-01"],
     [token |-> "issued-2", expires |-> "2026-02-01"]}

IssueMessages ==
    {[type |-> "token.issue", token |-> g.token, expires |-> g.expires] :
        g \in {h \in Grants : h.token # "installed"}}

ServerOff ==
    /\ clientRecords = <<>>
    /\ tokenRecords = {}
    /\ pendingWrites = {}
    /\ calls = <<>>
    /\ nextDocId = 1
    /\ nextTokenId = 1

AgentInit ==
    /\ ServerOff
    /\ fs \in {[p \in {"token", "token.expiration", "args.tokenFile"} |->
                 IF p = "token" THEN t
                 ELSE IF p = "token.expiration" THEN e ELSE f] :
                 t \in OptionalOf({"installed"}),
                 e \in OptionalOf({"2025-12-01"}),
                 f \in OptionalOf({"file-token"})}
    \* saveToken() writes the token first: no expiry file without a token file
    /\ existsSync("token.expiration") => existsSync("token")
    /\ core \in [args : ArgsSet, settingsToken : OptionalOf({"fallback"})]
    /\ token = Null
    /\ tokenExpires = Null
    /\ agentPc = "new"
    /\ LoopInit

AgentNext ==
    \/ Setup /\ UNCHANGED serverVars
    \/ \E m \in IssueMessages : TokenIssue(m) /\ UNCHANGED serverVars
    \/ \E m \in IssueMessages : TokenIssueStopped(m) /\ UNCHANGED serverVars
    \/ Restart /\ UNCHANGED serverVars
    \/ OnConnect /\ UNCHANGED serverVars
    \/ OnDisconnect /\ UNCHANGED serverVars
    \/ \E t \in timers : Tick(t) /\ UNCHANGED serverVars

AgentSpec == AgentInit /\ [][AgentNext]_vars

\* ----------------------------------------------------------- verification
\* verifyToken(token), run to completion on the current state.
verifyToken(jwt) ==
    LET r == TokensVerify(jwt)
    IN  VerifyResult(r, IF r.success THEN getClient(r.subject) ELSE Null)

Accepted(jwt) == verifyToken(jwt).state = "success"

\* Identities with a record in some reachable store.
KnownIds == ClientIds \cup {"b"}

\* Every token minted so far, handed out or not.
MintedTokens == {Token(n, c) : n \in 1..(nextTokenId - 1), c \in KnownIds}

Done(i, op) == Running(i, op, "done")

\* No call for the client of call i was made after call i.
NoLaterCall(i) ==
    \A j \in (i + 1)..Len(calls) : calls[j].clientId # calls[i].clientId

\* C1: once provisionClient(c) has returned a token, and no other provision,
\* refresh or deprovision for c overlapped the call or followed it,
\* verifyToken of that token returns 'success' with the client record of c.
C1_ProvisionedTokenVerifies ==
    \A i \in 1..Len(calls) :
        (Done(i, "provision") /\ calls[i].solo /\ NoLaterCall(i)) =>
            LET v == verifyToken(calls[i].result[1])
            IN  /\ v.state = "success"
                /\ v.client # Null
                /\ v.client[1].id = calls[i].clientId

\* C1 witness: a verifyToken call made for the token of a completed, undisturbed
\* provisionClient returned 'success' with that client.
C1_Witness ==
    \E i, j \in 1..Len(calls) :
        /\ Done(i, "provision") /\ calls[i].solo /\ NoLaterCall(i)
        /\ Done(j, "verify") /\ i < j
        /\ calls[j].token = calls[i].result[1]
        /\ calls[j].result[1].state = "success"
        /\ calls[j].result[1].client # Null
        /\ calls[j].result[1].client[1].id = calls[i].clientId

\* C2: of two tokens returned by provisionClient for the same client, the one
\* returned by the earlier call (the later call started after it, or minted
\* after it when the calls overlapped) fails verifyToken once the later call
\* has completed.
C2_ReprovisionInvalidates ==
    \A i, j \in 1..Len(calls) :
        (/\ Done(i, "provision") /\ Done(j, "provision")
         /\ calls[i].clientId = calls[j].clientId
         /\ \/ i < j /\ calls[j].solo
            \/ calls[i].result[1].kid < calls[j].result[1].kid) =>
            verifyToken(calls[i].result[1]).state = "authenticationfailed"

\* C2 witness: provisionClient(c) returned, a later provisionClient(c) started
\* after that and returned, and a verifyToken call for the first token failed.
C2_Witness ==
    \E i, j, k \in 1..Len(calls) :
        /\ i < j /\ j < k
        /\ Done(i, "provision") /\ Done(j, "provision") /\ calls[j].solo
        /\ calls[i].clientId = calls[j].clientId
        /\ Done(k, "verify") /\ calls[k].solo
        /\ calls[k].token = calls[i].result[1]
        /\ calls[k].result[1].state = "authenticationfailed"

\* Tokens of client c that were handed out.
IssuedFor(c) == {t \in IssuedTokens : t.sub = c}

\* C3: after deprovisionClient(c) has returned true (nothing for c overlapping
\* or following the call), no token issued for c is accepted by verifyToken.
\* Stated for runs whose tokens for c come from the 'token.refresh' handler.
C3_DeprovisionInvalidatesAll ==
    \A i \in 1..Len(calls) :
        (/\ Done(i, "deprovision") /\ calls[i].result = Some(TRUE)
         /\ calls[i].solo /\ NoLaterCall(i)
         /\ pendingWrites = {}
         /\ \A j \in 1..Len(calls) : calls[j].op # "provision") =>
            \A t \in IssuedFor(calls[i].clientId) : ~Accepted(t)

\* C4: no verifyToken call returns 'success' without a client record.
C4_NoSuccessWithoutClient ==
    \A i \in 1..Len(calls) :
        Done(i, "verify") =>
            ~(calls[i].result[1].state = "success"
              /\ calls[i].result[1].client = Null)

\* C5: in every reachable state each client identity has at most one token
\* that verifyToken would accept.
C5_AtMostOneLiveToken ==
    \A c \in KnownIds :
        Cardinality({t \in MintedTokens : t.sub = c /\ Accepted(t)}) <= 1

\* C5 witness: a client that was issued three tokens (an earlier run's, a
\* provisionClient's or a refresh's) has exactly one accepted.
C5_Witness ==
    \E c \in ClientIds :
        /\ Cardinality(IssuedFor(c)) >= 3
        /\ Cardinality({t \in MintedTokens : t.sub = c /\ Accepted(t)}) = 1

\* The provisionClient calls made for client c.
ProvisionCalls(c) ==
    {i \in 1..Len(calls) : calls[i].op = "provision" /\ calls[i].clientId = c}

\* C6: when two or more provisionClient calls for c overlapped and all have
\* completed, their writes landed, the stored record's tokenId is the id of
\* the token minted last for c.  (Stated for a client every one of the calls
\* found in the registry, in runs with no refresh or deprovision for c.)
C6_ConcurrentProvisionLastMintWins ==
    \A c \in ClientIds :
        (/\ Cardinality(ProvisionCalls(c)) >= 2
         /\ \E i \in ProvisionCalls(c) : ~calls[i].solo
         /\ \A i \in ProvisionCalls(c) : calls[i].client # Null
         /\ \A i \in 1..Len(calls) :
                calls[i].clientId = c =>
                    calls[i].op = "provision" /\ calls[i].pc = "done"
         /\ pendingWrites = {}) =>
            /\ getClient(c) # Null
            /\ \A i \in ProvisionCalls(c) :
                   calls[i].t[1].record.id <= getClient(c)[1].tokenId

\* C7: a deprovisionClient call whose lookup finds no record returns false,
\* and no step of it changes the client records or the token records.
C7_DeprovisionUnknownIsNoop ==
    [][/\ (Len(calls') > Len(calls) /\ calls'[Len(calls')].op = "deprovision")
            => UNCHANGED <<clientRecords, tokenRecords>>
       /\ \A i \in 1..Len(calls) :
            (/\ Running(i, "deprovision", "lookedup")
             /\ calls[i].client = Null
             /\ calls'[i] # calls[i]) =>
                /\ calls'[i].pc = "done"
                /\ calls'[i].result = Some(FALSE)
                /\ UNCHANGED <<clientRecords, tokenRecords>>]_vars

\* C7 witness: a deprovisionClient call for an unknown client has returned
\* false while that client's record exists again (a concurrent provision).
C7_Witness ==
    \E i \in 1..Len(calls) :
        /\ Done(i, "deprovision")
        /\ calls[i].client = Null
        /\ calls[i].result = Some(FALSE)
        /\ getClient(calls[i].clientId) # Null

\* C8: a 'token.refresh' handled for a client that was deprovisioned while
\* connected (and not provisioned again) sends no token that verifyToken
\* would accept.
C8_RefreshAfterDeprovisionUnusable ==
    \A i, j \in 1..Len(calls) :
        (/\ j < i
         /\ Done(j, "deprovision") /\ calls[j].result = Some(TRUE)
         /\ Done(i, "refresh") /\ calls[i].solo /\ NoLaterCall(i)
         /\ calls[i].clientId = calls[j].clientId
         /\ \A k \in 1..Len(calls) : calls[k].op # "provision") =>
            \A m \in 1..Len(calls[i].out) :
                calls[i].out[m].type = "client.token.issue" =>
                    ~Accepted(calls[i].out[m].token)

\* C9: when the 'token.refresh' handler has replied with T2 (nothing else for
\* the client overlapping or following), verifyToken accepts T2 and rejects
\* every token the client was issued before.
C9_RefreshRotates ==
    \A i \in 1..Len(calls) :
        (Done(i, "refresh") /\ calls[i].solo /\ NoLaterCall(i)) =>
            LET T2 == calls[i].out[1].token
            IN  /\ verifyToken(T2).state = "success"
                /\ \A T1 \in IssuedFor(calls[i].clientId) \ {T2} :
                       verifyToken(T1).state = "authenticationfailed"

\* C9 witness: provisionClient returned T1, the client connected with it, the
\* handler replied with T2, and T1 was accepted before the refresh.
C9_Witness ==
    \E i, j, k \in 1..Len(calls) :
        /\ i < j /\ j < k
        /\ Done(i, "provision")
        /\ Done(j, "verify") /\ calls[j].token = calls[i].result[1]
        /\ calls[j].result[1].state = "success"
        /\ Done(k, "refresh") /\ calls[k].solo
        /\ calls[k].clientId = calls[i].clientId
        /\ calls[k].out[1].token # calls[i].result[1]

\* C10: setup with an installed token file and a token or token file given on
\* the command line without the force flag ends with the installed token in
\* memory and leaves the token file and the expiry file as they were.
C10_WarmStartKeepsInstalledToken ==
    [][(/\ agentPc = "new"
        /\ existsSync("token")
        /\ core.args # Null
        /\ (Truthy(core.args[1].token) \/ Truthy(core.args[1].tokenFile))
        /\ ~core.args[1].force
        /\ agentPc' # "new") =>
            /\ agentPc' = "ready"
            /\ token' # Null
            /\ token'[1].data = fs["token"][1]
            /\ fs'["token"] = fs["token"]
            /\ fs'["token.expiration"] = fs["token.expiration"]]_vars

\* C10 witness: setup completed with a command-line token that differs from the
\* installed one, no force flag, and the installed token in memory.
C10_Witness ==
    /\ agentPc = "ready"
    /\ core.args # Null
    /\ core.args[1].token = Some("arg-token")
    /\ ~core.args[1].force
    /\ fs["token"] = Some("installed")
    /\ fs["token.expiration"] = Some("2025-12-01")
    /\ token = Some(Buf("installed"))
    /\ tokenExpires = Some(Buf("2025-12-01"))

\* The command line names neither a token nor a token file.
NoSuppliedToken ==
    \/ core.args = Null
    \/ ~Truthy(core.args[1].token) /\ ~Truthy(core.args[1].tokenFile)

\* C11: setup with no token file, neither a token nor a token file on the
\* command line and a fallback token in the settings completes, with the token
\* file holding exactly the fallback token and no connection opened yet.
C11_ColdStartInstallsFallback ==
    [][(/\ agentPc = "new"
        /\ ~existsSync("token")
        /\ NoSuppliedToken
        /\ Truthy(core.settingsToken)
        /\ agentPc' # "new") =>
            /\ agentPc' = "ready"
            /\ fs'["token"] = core.settingsToken
            /\ connection' = 0
            /\ timers' = {}]_vars

\* The first available of: the raw token of the command line, the contents of
\* the token file it names, the fallback token of the settings.
FirstAvailable ==
    IF core.args # Null /\ Truthy(core.args[1].token) THEN core.args[1].token
    ELSE IF /\ core.args # Null
            /\ Truthy(core.args[1].tokenFile)
            /\ existsSync("args.tokenFile")
         THEN fs["args.tokenFile"]
    ELSE IF Truthy(core.settingsToken) THEN core.settingsToken
    ELSE Null

\* The acquisition path: no token file, or the force flag with a token or a
\* token file on the command line.
AcquisitionPath ==
    \/ ~existsSync("token")
    \/ /\ core.args # Null
       /\ core.args[1].force
       /\ ~NoSuppliedToken

\* C12: when setup takes the acquisition path it adopts the first available
\* of raw token, token file contents and fallback token, and it aborts with
\* an error when none of the three is available.
C12_AcquisitionPriority ==
    [][(/\ agentPc = "new"
        /\ AcquisitionPath
        /\ agentPc' # "new") =>
            IF FirstAvailable = Null
            THEN agentPc' = "failed"
            ELSE /\ agentPc' = "ready"
                 /\ token' = Some(Str(FirstAvailable[1]))
                 /\ fs'["token"] = FirstAvailable]_vars

\* The messages sent on connection c so far.
SentOn(c) == SelectSeq(sent, LAMBDA x : x.connection = c)

\* C13: when onConnect has run for a connection (the first or a later one),
\* exactly one 'client.token.refresh' was sent on it, as the last message sent,
\* and a recurring 8-hour timer bound to it is armed; when a timer has ticked,
\* a 'client.token.refresh' was sent on the connection the timer was armed
\* for, and the timer stays armed.
C13_ConnectRefreshesAndArms ==
    /\ event.type = "onConnect" =>
            /\ Len(SentOn(event.connection)) = 1
            /\ sent[Len(sent)].connection = event.connection
            /\ sent[Len(sent)].type = "client.token.refresh"
            /\ sent[Len(sent)].by = "onConnect"
            /\ [connection |-> event.connection, every |-> 8 * 3600 * 1000]
                    \in timers
            /\ tokenRefreshInterval =
                    Some([connection |-> event.connection,
                          every |-> 8 * 3600 * 1000])
    /\ event.type = "tick" =>
            /\ sent[Len(sent)].connection = event.connection
            /\ sent[Len(sent)].type = "client.token.refresh"
            /\ sent[Len(sent)].by = "interval"
            /\ Len(SentOn(event.connection)) >= 2
            /\ [connection |-> event.connection, every |-> 8 * 3600 * 1000]
                    \in timers

\* C13 witness: after a reconnection (the second connection) its timer has
\* ticked, so two requests went out on it: the immediate one and the tick's.
C13_Witness ==
    /\ event.type = "tick"
    /\ event.connection = 2
    /\ connection = 2
    /\ SentOn(2) = <<Refresh(2, "onConnect"), Refresh(2, "interval")>>

\* C14: no timer tick sends a 'client.token.refresh' while the agent is
\* disconnected (after onDisconnect and before the next onConnect).
C14_NoTickWhileDisconnected ==
    event.type = "tick" => connection # 0

\* C15: while the agent runs, exactly one refresh timer is armed when a
\* connection is open and none when there is no connection.
C15_OneTimerPerConnection ==
    agentPc = "ready" =>
        Cardinality(timers) = IF connection # 0 THEN 1 ELSE 0

\* C16: when a 'token.issue' message carrying (token, expires) has been
\* handled, the token and expiry in memory are the message's, and the token
\* file and the expiry file hold the message's token and expiry.
C16_IssueOverwritesAndPersists ==
    (event.type = "token.issue" /\ agentPc = "ready") =>
        /\ token = Some(Str(event.message.token))
        /\ tokenExpires = Some(Str(event.message.expires))
        /\ fs["token"] = Some(event.message.token)
        /\ fs["token.expiration"] = Some(event.message.expires)

\* C16 witness: a second 'token.issue' was handled over the files of an
\* earlier grant: memory and both files hold the later grant.
C16_Witness ==
    /\ event.type = "token.issue"
    /\ event.message.token = "issued-2"
    /\ agentPc = "ready"
    /\ connection # 0
    /\ token = Some(Str("issued-2"))
    /\ tokenExpires = Some(Str("2026-02-01"))
    /\ fs["token"] = Some("issued-2")
    /\ fs["token.expiration"] = Some("2026-02-01")

\* C17: in every state of the files, an expiry file that is present beside
\* the token file holds the expiry that was granted with that token.
C17_ExpiryBelongsToToken ==
    (existsSync("token") /\ existsSync("token.expiration")) =>
        [token |-> fs["token"][1], expires |-> fs["token.expiration"][1]]
            \in Grants

\* The calls made by the handler of endpoint ep.
EndpointCalls(ep) ==
    {i \in 1..Len(calls) : calls[i].req # Null /\ calls[i].req[1].ep = ep}

\* C18: for a provision request whose body has no 'id' or an empty one, no
\* client record of that identity exists, no token record has it as subject,
\* and once the handler is done its one response is a client error (4xx).
C18_ProvisionRejectsMissingId ==
    \A i \in EndpointCalls("provision") :
        ~Truthy(calls[i].req[1].input[1].id) =>
            /\ getClient(calls[i].clientId) = Null
            /\ \A r \in tokenRecords : r.subject # calls[i].clientId
            /\ calls[i].pc = "done" =>
                    /\ Len(Responses(i)) = 1
                    /\ Responses(i)[1].status \in 400..499

\* C19: for a deprovision request without a clientId parameter the handler
\* responds exactly once, with status 400, and does not call
\* deprovisionClient.
C19_DeprovisionRefusesMissingId ==
    \A i \in EndpointCalls("deprovision") :
        (calls[i].req[1].input = Null
         \/ ~Truthy(calls[i].req[1].input[1].clientId)) =>
            /\ ~calls[i].req[1].called
            /\ Len(Responses(i)) = 1
            /\ Responses(i)[1].status = 400

Quiescent ==
    /\ \A i \in 1..Len(calls) : calls[i].pc = "done"
    /\ pendingWrites = {}

\* C21: whenever the registry is at rest, every token record (every record
\* the generator would accept a token for) has a subject for which a client
\* record exists.
C21_NoOrphanedTokens ==
    Quiescent => \A r \in tokenRecords : getClient(r.subject) # Null

\* The client records whose id is c.
RecordsOf(c) == {k \in 1..Len(clientRecords) : clientRecords[k].id = c}

\* C26: when concurrent provisionClient calls for an identity that was unknown
\* to each of them have all completed (nothing else was called for it), the
\* registry holds exactly one client record with that id.
C26_ConcurrentProvisionOneRecord ==
    \A c \in ClientIds :
        (/\ Quiescent
         /\ Cardinality(ProvisionCalls(c)) >= 2
         /\ \A i \in 1..Len(calls) :
                calls[i].clientId = c =>
                    calls[i].op = "provision" /\ calls[i].client = Null) =>
            Cardinality(RecordsOf(c)) = 1
\* C23: once the 'token.refresh' handler has sent the new token of the bound
\* client c (nothing for c overlapped the handler or followed it) and c still
\* has a client record, that record's tokenId is the id of the new token.
C23_RefreshUpdatesTokenId ==
    \A i \in 1..Len(calls) :
        (/\ Done(i, "refresh")
         /\ calls[i].solo
         /\ NoLaterCall(i)
         /\ getClient(calls[i].clientId) # Null) =>
            getClient(calls[i].clientId)[1].tokenId = calls[i].t[1].record.id

\* C24: once the 'state' handler has processed a report s of the bound client
\* c (found in the registry, nothing for c overlapping or following), the
\* record getClient(c) returns has state s.
C24_StateIsRecorded ==
    \A i \in 1..Len(calls) :
        (/\ Done(i, "state")
         /\ calls[i].client # Null
         /\ calls[i].solo
         /\ NoLaterCall(i)
         /\ getClient(calls[i].clientId) # Null) =>
            getClient(calls[i].clientId)[1].state = calls[i].message[1].state

\* The id, created and state fields of the client records, in store order.
Identity(docs) ==
    [k \in 1..Len(docs) |->
        [id |-> docs[k].id, created |-> docs[k].created, state |-> docs[k].state]]

\* C28: every step of the 'token.refresh' handler leaves the id, created and
\* state of every client record unchanged; its first step mints a token that
\* was never issued before, for the bound client, and sends nothing yet; its
\* last step leaves the connection with exactly one message sent by the
\* handler, a 'client.token.issue' carrying that token and its expiry.
C28_RefreshSendsOneIssue ==
    [][\A i \in 1..Len(calls') :
          (calls'[i].op = "refresh" /\ (i > Len(calls) \/ calls'[i] # calls[i])) =>
              LET r == calls'[i].t[1]
              IN  /\ Identity(clientRecords') = Identity(clientRecords)
                  /\ i > Len(calls) =>
                        /\ r.token = Token(nextTokenId, calls'[i].clientId)
                        /\ r.record \in tokenRecords'
                        /\ r.record.id = nextTokenId
                        /\ calls'[i].out = <<>>
                  /\ i <= Len(calls) =>
                        /\ calls'[i].pc = "done"
                        /\ calls'[i].t = calls[i].t
                        /\ calls'[i].out =
                              <<[type |-> "client.token.issue",
                                 token |-> r.token,
                                 expires |-> ToISO(r.record.expires)]>>]_vars

C28_Witness ==
    \E i \in 1..Len(calls) :
        /\ Done(i, "refresh")
        /\ Len(calls[i].out) = 1
        /\ calls[i].out[1].type = "client.token.issue"
        /\ calls[i].out[1].token = Token(nextTokenId - 1, calls[i].clientId)
        /\ calls[i].out[1].expires = ToISO(calls[i].t[1].record.expires)

\* C22: when every call of a run that made only deprovisionClient calls has
\* finished (returned or raised), a call that found the client with a token
\* reference sees the client record and the token record it referenced either
\* both removed or both still stored.
C22_DeprovisionAllOrNothing ==
    (/\ Quiescent
     /\ \A j \in 1..Len(calls) : calls[j].op = "deprovision") =>
        \A i \in 1..Len(calls) :
            (calls[i].client # Null /\ calls[i].client[1].tokenId # 0) =>
                LET client == calls[i].client[1]
                IN  (getClient(client.id) = Null) <=>
                        (\A r \in tokenRecords : r.id # client.tokenId)

\* C25: a provisionClient call one of whose store operations (lookup, insert,
\* final write) was rejected returns no token.
C25_ProvisionPropagatesStoreFailure ==
    \A i \in 1..Len(calls) :
        (calls[i].op = "provision" /\ calls[i].pc = "done"
         /\ calls[i].failed # {}) =>
            calls[i].result = Null

\* C27: a 'token.issue' message handled while the agent is disconnected (after
\* onDisconnect: no connection, the handle of the last interval still held)
\* puts the message's token and expiry in memory and in both files, and leaves
\* the armed timers and the held handle as they were.
C27_IssueAfterDisconnect ==
    [][(/\ agentPc = "ready"
        /\ connection = 0
        /\ tokenRefreshInterval # Null
        /\ event' # event
        /\ event'.type = "token.issue") =>
           /\ token' = Some(Str(event'.message.token))
           /\ tokenExpires' = Some(Str(event'.message.expires))
           /\ fs'["token"] = Some(event'.message.token)
           /\ fs'["token.expiration"] = Some(event'.message.expires)
           /\ timers' = timers
           /\ tokenRefreshInterval' = tokenRefreshInterval]_vars

\* C27 witness: the grant issued-1 was handled after onDisconnect, over the
\* files of another token, and is in memory and in the files.
C27_Witness ==
    /\ event.type = "token.issue"
    /\ event.connection = 0
    /\ event.message.token = "issued-1"
    /\ agentPc = "ready"
    /\ connection = 0
    /\ tokenRefreshInterval # Null
    /\ token = Some(Str("issued-1"))
    /\ tokenExpires = Some(Str("2026-01-01"))
    /\ fs["token"] = Some("issued-1")
    /\ fs["token.expiration"] = Some("2026-01-01")

====
